---- MODULE Spec2Model ----
(***************************************************************************)
(* Model of src/net/peer/connect/connect.rs: the rendezvous `connect`      *)
(* routine of crust, its handshake validator and the race it runs over     *)
(* direct-outgoing, relay and direct-incoming connection attempts.         *)
(*                                                                         *)
(* `connect` builds one future out of stream combinators (futures 0.1).    *)
(* The model keeps the state of every combinator that has state:           *)
(*   direct_connections  the futures_unordered of TcpStream::connect       *)
(*   p2p_connection      the relay future (channel send, then conn_rx)     *)
(*   all_connections     the and_then chain, which holds ONE socket at a   *)
(*                       time (Stream::and_then polls its upstream only    *)
(*                       when it holds no pending future)                  *)
(*   direct_incoming     the and_then chain over peer_rx                   *)
(*   errors              the Vec that first_ok() accumulates               *)
(* Every step of the task is one action; what the outside world answers    *)
(* (a connect succeeds or not, a send completes or not, ...) is chosen     *)
(* with \E.  Peer "B" is a second caller of connect used by the two-peer   *)
(* specification; in Spec it is "off" and the remote party is the outside  *)
(* world "X".                                                              *)
(***************************************************************************)
EXTENDS Integers, Sequences, FiniteSets, TLC

\* ------------------------------------------------------------------ bounds
MaxDirect == 1      \* most direct addresses a remote advertises
MaxInbound == 1     \* most items the inbound stream peer_rx delivers

\* --------------------------------------------------------------- constants
TIMEOUT_SEC == 60

Peers == {"A", "B"}
Parties == {"A", "B", "X"}
Uids == {1, 2}
Hashes == {"h", "g"}

Other(p) == IF p = "A" THEN "B" ELSE "A"

\* ------------------------------------------------------------------ values
Ok(v) == <<"Ok", v>>
Err(e) == <<"Err", e>>
IsOk(r) == r[1] = "Ok"
IsErr(r) == r[1] = "Err"
Pending == <<"Pending">>

\* SingleConnectionError
Io == <<"Io">>
SocketErr == <<"Socket">>
ConnectionDropped == <<"ConnectionDropped">>
InvalidUid(received, expected) == <<"InvalidUid", received, expected>>
InvalidNameHash(h) == <<"InvalidNameHash", h>>
UnexpectedMessage == <<"UnexpectedMessage">>
DeadChannel == <<"DeadChannel">>
RendezvousConnect == <<"RendezvousConnect">>

\* ConnectError
RequestedConnectToSelf == <<"RequestedConnectToSelf">>
ConnectIo == <<"ConnectError::Io">>
AllConnectionsFailed(v) == <<"AllConnectionsFailed", v>>

\* handshake messages
ConnectRequest(u, h) == [uid |-> u, name_hash |-> h]
Requests == {ConnectRequest(u, h) : u \in Uids, h \in Hashes}
NoRequest == ConnectRequest(0, "")
HandshakeConnect(r) == <<"Connect", r>>
HandshakeOther == <<"Other">>
Messages == {HandshakeConnect(r) : r \in Requests} \cup {HandshakeOther}

\* format!("{}", uid)
Format(u) == ToString(u)

\* connections: a direct connection opened by p to its k-th address, the one
\* relay connection, the k-th connection accepted for p by the listener
DirectConn(p, k) == <<"direct", p, k>>
RelayConn == <<"relay", "-", 0>>
IncomingConn(p, k) == <<"incoming", p, k>>
Conns ==
    {DirectConn(p, k) : p \in Peers, k \in 1..MaxDirect}
    \cup {RelayConn}
    \cup {IncomingConn(p, k) : p \in Peers, k \in 1..MaxInbound}

\* oneshot receiver conn_rx: nothing yet, sender dropped, value consumed
Empty == <<"empty">>
Canceled == <<"canceled">>
Taken == <<"taken">>

\* and_then chain positions
Idle == <<"idle">>
Sending(c) == <<"send", c>>
Receiving(c) == <<"recv", c>>

VARIABLES
    pc,                 \* per caller: "off", "init", "running", "done"
    our_info,           \* [id]                      (PrivConnectionInfo)
    their_info,         \* [id, for_direct]          (PubConnectionInfo)
    name_hash,
    direct_connections, \* addresses whose TcpStream::connect is unresolved
    p2p_connection,     \* "none", "send", "recv", "done"
    all_connections,    \* Idle, Sending(c), Receiving(c)
    peer_rx,            \* [queue, open, count]
    direct_incoming,    \* Idle, Sending(c)
    errors,             \* first_ok's Vec<SingleConnectionError>
    result,             \* Pending, Ok(peer), Err(ConnectError)
    msgs,               \* per connection and party: sent by it and not yet read
    shut,               \* per connection: the parties that closed their end
    faulty,             \* connections whose transport failed under the reader
    rendezvous,         \* payloads delivered on rendezvous_channel
    connection_rx,      \* conn_rx: Empty, a Result, Canceled, Taken
    start_conn,         \* the spawned negotiation task: "spawned", "sent",
                        \* "discarded" (finished, receiver gone), "dropped"
    outcome,            \* history: per attempt, the Result it ended with
    completed,          \* history: attempts in the order they ended
    upgraded,           \* history: candidates handed to from_handshaken_socket
    request_of,         \* history: per socket, the request on it that passed validation
    elapsed             \* seconds since connect was called

vars ==
    <<pc, our_info, their_info, name_hash, direct_connections, p2p_connection,
      all_connections, peer_rx, direct_incoming, errors, result, msgs, shut,
      faulty, rendezvous, connection_rx, start_conn, outcome, completed,
      upgraded, request_of, elapsed>>

stream_vars ==
    <<direct_connections, p2p_connection, all_connections, peer_rx, direct_incoming>>
net_vars == <<msgs, shut, faulty>>
relay_vars == <<rendezvous, connection_rx, start_conn>>
history == <<outcome, completed, upgraded, request_of>>
args == <<our_info, their_info, name_hash>>

\* the party at the far end of p's connections
Far(p) == IF pc[Other(p)] = "off" THEN "X" ELSE Other(p)

\* whether an operation on the network or on a socket goes well: the outside
\* world may answer either way; between two callers the network is reliable
Answers(p) == IF Far(p) = "X" THEN BOOLEAN ELSE {TRUE}

\* ------------------------------------------------- validate_connect_request
\* faulty variants: the name hash is not compared; the name hash is compared first
validate_uid_only(expected_uid, our_name_hash, connect_request) ==
    IF connect_request.uid # expected_uid
    THEN Err(InvalidUid(Format(connect_request.uid), Format(expected_uid)))
    ELSE Ok(<<>>)

validate_hash_first(expected_uid, our_name_hash, connect_request) ==
    IF our_name_hash # connect_request.name_hash
    THEN Err(InvalidNameHash(connect_request.name_hash))
    ELSE IF connect_request.uid # expected_uid
    THEN Err(InvalidUid(Format(connect_request.uid), Format(expected_uid)))
    ELSE Ok(<<>>)

validate_connect_request(expected_uid, our_name_hash, connect_request) ==
    IF connect_request.uid # expected_uid
    THEN Err(InvalidUid(Format(connect_request.uid), Format(expected_uid)))
    ELSE IF our_name_hash # connect_request.name_hash
    THEN Err(InvalidNameHash(connect_request.name_hash))
    ELSE Ok(<<>>)

\* ------------------------------------------------------------------ streams
\* all_connections has ended: futures_unordered is empty, the relay future's
\* stream is spent and the and_then chain holds nothing
AllConnectionsEnded(p) ==
    /\ direct_connections[p] = {}
    /\ p2p_connection[p] = "done"
    /\ all_connections[p] = Idle

\* direct_incoming has ended: peer_rx is closed and drained
DirectIncomingEnded(p) ==
    /\ peer_rx[p].queue = <<>>
    /\ ~peer_rx[p].open
    /\ direct_incoming[p] = Idle

\* faulty variant: the merged stream ends with its outgoing half
SelectEndedOutgoing(p) == AllConnectionsEnded(p)

\* select(...) ends when both of its streams have ended
SelectEnded(p) == AllConnectionsEnded(p) /\ DirectIncomingEnded(p)

\* faulty variant: the streams are still polled after the future resolved
RacingOn(p) == pc[p] \in {"running", "done"} /\ our_info[p].id # their_info[p].id

\* the race is on: the future is being polled and has not resolved
Racing(p) == pc[p] = "running" /\ result[p] = Pending

\* faulty variant: the request names the remote's identity
OurConnectRequestTheirs(p) == ConnectRequest(their_info[p].id, name_hash[p])

\* our_connect_request
OurConnectRequest(p) == ConnectRequest(our_info[p].id, name_hash[p])

\* p drops its sockets on the connections cs: its end closes and what the far
\* end had sent it is discarded.  w is msgs after the step's own sends and reads
Dropped(p, cs, w) ==
    /\ msgs' = [c \in Conns |-> IF c \in cs THEN [w[c] EXCEPT ![Far(p)] = <<>>] ELSE w[c]]
    /\ shut' = [c \in Conns |-> IF c \in cs THEN shut[c] \cup {p} ELSE shut[c]]
    /\ faulty' = faulty \ cs

\* ----------------------------------------------------------------- first_ok
\* faulty variant: the first error ends the race
FirstOkErrShort(p, c, e, w) ==
    /\ errors' = [errors EXCEPT ![p] = Append(@, e)]
    /\ outcome' = [outcome EXCEPT ![p][c] = Err(e)]
    /\ completed' = [completed EXCEPT ![p] = Append(@, c)]
    /\ result' = [result EXCEPT ![p] = Err(AllConnectionsFailed(errors'[p]))]
    /\ pc' = [pc EXCEPT ![p] = "done"]
    /\ Dropped(p, Conns, w)
    /\ UNCHANGED upgraded

\* faulty variant: the error is not kept
FirstOkErrLost(p, c, e, w) ==
    /\ UNCHANGED errors
    /\ outcome' = [outcome EXCEPT ![p][c] = Err(e)]
    /\ completed' = [completed EXCEPT ![p] = Append(@, c)]
    /\ IF SelectEnded(p)'
       THEN /\ result' = [result EXCEPT ![p] = Err(AllConnectionsFailed(errors'[p]))]
            /\ pc' = [pc EXCEPT ![p] = "done"]
            /\ Dropped(p, Conns, w)
       ELSE /\ UNCHANGED <<result, pc>>
            /\ Dropped(p, {c}, w)
    /\ UNCHANGED upgraded

\* faulty variant: the newest error is put in front
FirstOkErrFront(p, c, e, w) ==
    /\ errors' = [errors EXCEPT ![p] = <<e>> \o @]
    /\ outcome' = [outcome EXCEPT ![p][c] = Err(e)]
    /\ completed' = [completed EXCEPT ![p] = Append(@, c)]
    /\ IF SelectEnded(p)'
       THEN /\ result' = [result EXCEPT ![p] = Err(AllConnectionsFailed(errors'[p]))]
            /\ pc' = [pc EXCEPT ![p] = "done"]
            /\ Dropped(p, Conns, w)
       ELSE /\ UNCHANGED <<result, pc>>
            /\ Dropped(p, {c}, w)
    /\ UNCHANGED upgraded

\* first_ok saw Err(e) from attempt c: push it and poll on; the poll that
\* finds the merged stream ended returns the collected errors
FirstOkErr(p, c, e, w) ==
    /\ errors' = [errors EXCEPT ![p] = Append(@, e)]
    /\ outcome' = [outcome EXCEPT ![p][c] = Err(e)]
    /\ completed' = [completed EXCEPT ![p] = Append(@, c)]
    /\ IF SelectEnded(p)'
       THEN /\ result' = [result EXCEPT ![p] = Err(AllConnectionsFailed(errors'[p]))]
            /\ pc' = [pc EXCEPT ![p] = "done"]
            /\ Dropped(p, Conns, w)
       ELSE /\ UNCHANGED <<result, pc>>
            /\ Dropped(p, {c}, w)
    /\ UNCHANGED upgraded

\* faulty variant: a failed upgrade counts as a failed attempt and the race
\* goes on
FirstOkItemFallback(p, c, item, w) ==
    /\ upgraded' = [upgraded EXCEPT ![p] = Append(@, item)]
    /\ \E up \in Answers(p) :
        IF up
        THEN /\ outcome' = [outcome EXCEPT ![p][c] = Ok(item)]
             /\ completed' = [completed EXCEPT ![p] = Append(@, c)]
             /\ result' = [result EXCEPT ![p] = Ok(<<"Peer", item[1], item[2]>>)]
             /\ Dropped(p, Conns \ {item[1]}, w)
             /\ pc' = [pc EXCEPT ![p] = "done"]
             /\ UNCHANGED errors
        ELSE /\ errors' = [errors EXCEPT ![p] = Append(@, Io)]
             /\ outcome' = [outcome EXCEPT ![p][c] = Err(Io)]
             /\ completed' = [completed EXCEPT ![p] = Append(@, c)]
             /\ Dropped(p, {c}, w)
             /\ UNCHANGED <<result, pc>>

\* first_ok saw Ok((socket, their_uid)) from attempt c: it resolves, and the
\* and_then of connect upgrades the socket; the upgrade's io::Error is mapped
\* to ConnectError::Io
FirstOkItem(p, c, item, w) ==
    /\ outcome' = [outcome EXCEPT ![p][c] = Ok(item)]
    /\ completed' = [completed EXCEPT ![p] = Append(@, c)]
    /\ upgraded' = [upgraded EXCEPT ![p] = Append(@, item)]
    /\ \E up \in Answers(p) :
        /\ result' = [result EXCEPT ![p] =
                        IF up THEN Ok(<<"Peer", item[1], item[2]>>) ELSE Err(ConnectIo)]
        /\ Dropped(p, Conns \ {item[1]}, w)
    /\ pc' = [pc EXCEPT ![p] = "done"]
    /\ UNCHANGED errors

FirstOk(p, c, res, w) ==
    IF IsOk(res) THEN FirstOkItem(p, c, res[2], w) ELSE FirstOkErr(p, c, res[2], w)

\* the poll yields nothing to first_ok
NotReady(w) ==
    /\ msgs' = w
    /\ UNCHANGED <<errors, result, pc, outcome, completed, upgraded, shut, faulty>>

\* -------------------------------------------------------------------- Init
InitCommon ==
    /\ direct_connections = [p \in Peers |-> {}]
    /\ p2p_connection = [p \in Peers |-> "none"]
    /\ all_connections = [p \in Peers |-> Idle]
    /\ peer_rx = [p \in Peers |-> [queue |-> <<>>, open |-> TRUE, count |-> 0]]
    /\ direct_incoming = [p \in Peers |-> Idle]
    /\ errors = [p \in Peers |-> <<>>]
    /\ result = [p \in Peers |-> Pending]
    /\ msgs = [c \in Conns |-> [q \in Parties |-> <<>>]]
    /\ shut = [c \in Conns |-> {}]
    /\ faulty = {}
    /\ rendezvous = [p \in Peers |-> 0]
    /\ connection_rx = [p \in Peers |-> Empty]
    /\ start_conn = [p \in Peers |-> "spawned"]
    /\ outcome = [p \in Peers |-> [c \in Conns |-> Pending]]
    /\ completed = [p \in Peers |-> <<>>]
    /\ upgraded = [p \in Peers |-> <<>>]
    /\ request_of = [p \in Peers |-> [c \in Conns |-> NoRequest]]
    /\ elapsed = [p \in Peers |-> 0]

\* one caller, "A"; the remote party is the outside world.  Identities and
\* name hashes are only compared for equality, so the local name hash is "h"
\* and of two distinct identities the local one is the smaller; the requests
\* that arrive range over every identity and both hashes
Init ==
    /\ pc = [p \in Peers |-> IF p = "A" THEN "init" ELSE "off"]
    /\ \E o \in Uids, t \in Uids, n \in 0..MaxDirect :
        /\ o <= t
        /\ our_info = [p \in Peers |-> [id |-> o]]
        /\ their_info = [p \in Peers |-> [id |-> t, for_direct |-> n]]
    /\ name_hash = [p \in Peers |-> "h"]
    /\ InitCommon

\* ----------------------------------------------------------------- connect
\* faulty variant: no check
ConnectToSelfUnchecked(p) == FALSE

\* our_info.id == their_info.id
ConnectToSelf(p) == our_info[p].id = their_info[p].id

\* connect(): the self-connect check, then the construction of the futures.
\* The early return drops our_info and peer_rx unused
Call(p) ==
    /\ pc[p] = "init"
    /\ IF ConnectToSelf(p)
       THEN /\ result' = [result EXCEPT ![p] = Err(RequestedConnectToSelf)]
            /\ pc' = [pc EXCEPT ![p] = "done"]
            /\ Dropped(p, Conns, msgs)
            /\ UNCHANGED <<direct_connections, p2p_connection>>
       ELSE /\ pc' = [pc EXCEPT ![p] = "running"]
            /\ direct_connections' =
                 [direct_connections EXCEPT ![p] = 1..their_info[p].for_direct]
            /\ p2p_connection' = [p2p_connection EXCEPT ![p] = "send"]
            /\ UNCHANGED <<result, net_vars>>
    /\ UNCHANGED <<args, all_connections, peer_rx, direct_incoming, errors,
                   relay_vars, history, elapsed>>

\* --------------------------------------------------------- all_connections
\* direct_connections yields the outcome of TcpStream::connect to address k
\* (it is polled only while the and_then chain holds no socket); a stream is
\* wrapped and the send of our request starts, an io::Error goes to first_ok
DirectConnections(p, k) ==
    /\ Racing(p)
    /\ all_connections[p] = Idle
    /\ k \in direct_connections[p]
    /\ direct_connections' = [direct_connections EXCEPT ![p] = @ \ {k}]
    /\ UNCHANGED <<args, p2p_connection, peer_rx, direct_incoming, relay_vars,
                   request_of, elapsed>>
    /\ \E ok \in Answers(p) :
        IF ok
        THEN /\ all_connections' = [all_connections EXCEPT ![p] = Sending(DirectConn(p, k))]
             /\ NotReady(msgs)
        ELSE /\ UNCHANGED all_connections
             /\ FirstOk(p, DirectConn(p, k), Err(Io), msgs)

\* p2p_connection, first half: rendezvous_channel.send(conn_info)
P2pSend(p) ==
    /\ Racing(p)
    /\ all_connections[p] = Idle
    /\ p2p_connection[p] = "send"
    /\ UNCHANGED <<args, direct_connections, all_connections, peer_rx,
                   direct_incoming, connection_rx, start_conn, request_of, elapsed>>
    /\ \E ok \in BOOLEAN :
        IF ok
        THEN /\ p2p_connection' = [p2p_connection EXCEPT ![p] = "recv"]
             /\ rendezvous' = [rendezvous EXCEPT ![p] = @ + 1]
             /\ NotReady(msgs)
        ELSE /\ p2p_connection' = [p2p_connection EXCEPT ![p] = "done"]
             /\ UNCHANGED rendezvous
             /\ FirstOk(p, RelayConn, Err(DeadChannel), msgs)

\* faulty variant: whatever is not a connection is DeadChannel
P2pRecvAllDead(p) ==
    /\ Racing(p)
    /\ all_connections[p] = Idle
    /\ p2p_connection[p] = "recv"
    /\ connection_rx[p] # Empty
    /\ p2p_connection' = [p2p_connection EXCEPT ![p] = "done"]
    /\ connection_rx' = [connection_rx EXCEPT ![p] = Taken]
    /\ UNCHANGED <<args, direct_connections, peer_rx, direct_incoming, rendezvous,
                   start_conn, request_of, elapsed>>
    /\ LET res == IF connection_rx[p] = Canceled \/ IsErr(connection_rx[p])
                  THEN Err(DeadChannel)
                  ELSE connection_rx[p]
       IN IF IsOk(res)
          THEN /\ all_connections' = [all_connections EXCEPT ![p] = Sending(res[2])]
               /\ NotReady(msgs)
          ELSE /\ UNCHANGED all_connections
               /\ FirstOk(p, RelayConn, res, msgs)

\* p2p_connection, second half: conn_rx resolves (Canceled is DeadChannel),
\* and_then(|res| res) flattens the delivered Result
P2pRecv(p) ==
    /\ Racing(p)
    /\ all_connections[p] = Idle
    /\ p2p_connection[p] = "recv"
    /\ connection_rx[p] # Empty
    /\ p2p_connection' = [p2p_connection EXCEPT ![p] = "done"]
    /\ connection_rx' = [connection_rx EXCEPT ![p] = Taken]
    /\ UNCHANGED <<args, direct_connections, peer_rx, direct_incoming, rendezvous,
                   start_conn, request_of, elapsed>>
    /\ LET res == IF connection_rx[p] = Canceled
                  THEN Err(DeadChannel)
                  ELSE connection_rx[p]
       IN IF IsOk(res)
          THEN /\ all_connections' = [all_connections EXCEPT ![p] = Sending(res[2])]
               /\ NotReady(msgs)
            ELSE /\ UNCHANGED all_connections
               /\ FirstOk(p, RelayConn, res, msgs)

\* msgs after p sent message m on c
Sent(p, c, m) == [msgs EXCEPT ![c][p] = Append(@, m)]

\* faulty variant: the outcome of the send is ignored and the read starts
AllConnectionsSentUnchecked(p) ==
    /\ Racing(p)
    /\ all_connections[p][1] = "send"
    /\ UNCHANGED <<args, direct_connections, p2p_connection, peer_rx,
                   direct_incoming, relay_vars, request_of, elapsed>>
    /\ LET c == all_connections[p][2]
       IN \E ok \in Answers(p) :
            /\ all_connections' = [all_connections EXCEPT ![p] = Receiving(c)]
            /\ IF ok
               THEN NotReady([msgs EXCEPT ![c][p] =
                        Append(@, HandshakeConnect(ConnectRequest(our_info[p].id, name_hash[p])))])
               ELSE NotReady(msgs)

\* and_then: socket.send((0, HandshakeMessage::Connect(our_connect_request)))
\* completes
AllConnectionsSent(p) ==
    /\ Racing(p)
    /\ all_connections[p][1] = "send"
    /\ UNCHANGED <<args, direct_connections, p2p_connection, peer_rx,
                   direct_incoming, relay_vars, request_of, elapsed>>
    /\ LET c == all_connections[p][2]
       IN \E ok \in Answers(p) :
            IF ok
            THEN /\ all_connections' = [all_connections EXCEPT ![p] = Receiving(c)]
                 /\ NotReady(Sent(p, c, HandshakeConnect(OurConnectRequest(p))))
                ELSE /\ all_connections' = [all_connections EXCEPT ![p] = Idle]
                 /\ FirstOk(p, c, Err(SocketErr), msgs)

\* what socket.into_future() of p's socket on c resolves to, if it does
FirstEvent(p, c) ==
    IF msgs[c][Far(p)] # <<>> THEN <<"some", Head(msgs[c][Far(p)])>>
    ELSE IF c \in faulty THEN <<"error">>
    ELSE IF Far(p) \in shut[c] THEN <<"none">>
    ELSE <<"notready">>

\* faulty variant: a closed connection is taken for a wrong message
HandshakeMatchNoNone(p, c, ev) ==
    IF ev[1] = "error" THEN Err(SocketErr)
    ELSE IF ev[1] = "some" /\ ev[2][1] = "Connect"
    THEN LET connect_request == ev[2][2]
             v == validate_connect_request(their_info[p].id, name_hash[p], connect_request)
         IN IF IsErr(v) THEN v ELSE Ok(<<c, connect_request.uid>>)
    ELSE Err(UnexpectedMessage)

\* the match on the first message of an outgoing or relay connection
HandshakeMatch(p, c, ev) ==
    IF ev[1] = "error" THEN Err(SocketErr)
    ELSE IF ev[1] = "none" THEN Err(ConnectionDropped)
    ELSE IF ev[2][1] = "Connect"
    THEN LET connect_request == ev[2][2]
             v == validate_connect_request(their_info[p].id, name_hash[p], connect_request)
         IN IF IsErr(v) THEN v ELSE Ok(<<c, connect_request.uid>>)
    ELSE Err(UnexpectedMessage)

\* msgs after p read what FirstEvent(p, c) shows
Read(p, c) == [msgs EXCEPT ![c][Far(p)] = IF @ = <<>> THEN @ ELSE Tail(@)]

\* and_then: socket.into_future() resolves, then the match
AllConnectionsReceived(p) ==
    /\ Racing(p)
    /\ all_connections[p][1] = "recv"
    /\ UNCHANGED <<args, direct_connections, p2p_connection, peer_rx,
                   direct_incoming, relay_vars, elapsed>>
    /\ LET c == all_connections[p][2]
           ev == FirstEvent(p, c)
       IN /\ ev[1] # "notready"
          /\ all_connections' = [all_connections EXCEPT ![p] = Idle]
          /\ request_of' = IF IsOk(HandshakeMatch(p, c, ev))
                            THEN [request_of EXCEPT ![p][c] = ev[2][2]]
                            ELSE request_of
          /\ FirstOk(p, c, HandshakeMatch(p, c, ev), Read(p, c))

\* --------------------------------------------------------- direct_incoming
\* faulty variant: our request is sent before the item's request is validated
DirectIncomingNextEager(p) ==
    /\ Racing(p)
    /\ direct_incoming[p] = Idle
    /\ peer_rx[p].queue # <<>>
    /\ peer_rx' = [peer_rx EXCEPT ![p].queue = Tail(@)]
    /\ UNCHANGED <<args, direct_connections, p2p_connection, all_connections,
                   relay_vars, elapsed>>
    /\ LET item == Head(peer_rx[p].queue)
           v == validate_connect_request(their_info[p].id, name_hash[p], item.req)
           w == [msgs EXCEPT ![item.socket][p] =
                    Append(@, HandshakeConnect(ConnectRequest(our_info[p].id, name_hash[p])))]
       IN IF IsErr(v)
          THEN /\ UNCHANGED <<direct_incoming, request_of>>
               /\ FirstOk(p, item.socket, v, w)
          ELSE /\ direct_incoming' = [direct_incoming EXCEPT ![p] = Sending(item.socket)]
               /\ request_of' = [request_of EXCEPT ![p][item.socket] = item.req]
               /\ NotReady(msgs)

\* and_then over peer_rx: validate the request of the next item, then start
\* sending our request on its socket
DirectIncomingNext(p) ==
    /\ Racing(p)
    /\ direct_incoming[p] = Idle
    /\ peer_rx[p].queue # <<>>
    /\ peer_rx' = [peer_rx EXCEPT ![p].queue = Tail(@)]
    /\ UNCHANGED <<args, direct_connections, p2p_connection, all_connections,
                   relay_vars, elapsed>>
    /\ LET item == Head(peer_rx[p].queue)
           v == validate_connect_request(their_info[p].id, name_hash[p], item.req)
       IN IF IsErr(v)
          THEN /\ UNCHANGED <<direct_incoming, request_of>>
               /\ FirstOk(p, item.socket, v, msgs)
          ELSE /\ direct_incoming' = [direct_incoming EXCEPT ![p] = Sending(item.socket)]
               /\ request_of' = [request_of EXCEPT ![p][item.socket] = item.req]
               /\ NotReady(msgs)

\* faulty variant: the item's own request is sent back
DirectIncomingSentEcho(p) ==
    /\ Racing(p)
    /\ direct_incoming[p][1] = "send"
    /\ direct_incoming' = [direct_incoming EXCEPT ![p] = Idle]
    /\ UNCHANGED <<args, direct_connections, p2p_connection, all_connections,
                   peer_rx, relay_vars, request_of, elapsed>>
    /\ LET c == direct_incoming[p][2]
       IN \E ok \in Answers(p) :
            IF ok
            THEN FirstOk(p, c, Ok(<<c, their_info[p].id>>),
                         [msgs EXCEPT ![c][p] = Append(@, HandshakeConnect(request_of[p][c]))])
            ELSE FirstOk(p, c, Err(SocketErr), msgs)

\* and_then(|f| f): the send on the item's socket completes
DirectIncomingSent(p) ==
    /\ Racing(p)
    /\ direct_incoming[p][1] = "send"
    /\ direct_incoming' = [direct_incoming EXCEPT ![p] = Idle]
    /\ UNCHANGED <<args, direct_connections, p2p_connection, all_connections,
                   peer_rx, relay_vars, request_of, elapsed>>
    /\ LET c == direct_incoming[p][2]
       IN \E ok \in Answers(p) :
            IF ok
            THEN FirstOk(p, c, Ok(<<c, their_info[p].id>>),
                         Sent(p, c, HandshakeConnect(OurConnectRequest(p))))
            ELSE FirstOk(p, c, Err(SocketErr), msgs)

\* a poll that finds peer_rx closed and drained after everything else ended:
\* select returns None and first_ok returns the errors
Exhausted(p) ==
    /\ Racing(p)
    /\ SelectEnded(p)
    /\ result' = [result EXCEPT ![p] = Err(AllConnectionsFailed(errors[p]))]
    /\ pc' = [pc EXCEPT ![p] = "done"]
    /\ Dropped(p, Conns, msgs)
    /\ UNCHANGED <<args, stream_vars, errors, relay_vars, history, elapsed>>

\* ------------------------------------------------------- the outside world
Called(p) == pc[p] \in {"init", "running"}

\* the listener accepted a connection whose first message was Connect(r) and
\* handed (socket, r) to peer_rx
InboundArrives(p, r) ==
    /\ Far(p) = "X"
    /\ Called(p)
    /\ peer_rx[p].open
    /\ peer_rx[p].count < MaxInbound
    /\ LET c == IncomingConn(p, peer_rx[p].count + 1)
       IN peer_rx' = [peer_rx EXCEPT ![p].queue = Append(@, [socket |-> c, req |-> r]),
                                     ![p].count = @ + 1]
    /\ UNCHANGED <<pc, args, direct_connections, p2p_connection, all_connections,
                   direct_incoming, errors, result, net_vars, relay_vars,
                   history, elapsed>>

\* every sender of peer_rx is dropped
InboundCloses(p) ==
    /\ Far(p) = "X"
    /\ Called(p)
    /\ peer_rx[p].open
    /\ peer_rx' = [peer_rx EXCEPT ![p].open = FALSE]
    /\ UNCHANGED <<pc, args, direct_connections, p2p_connection, all_connections,
                   direct_incoming, errors, result, net_vars, relay_vars,
                   history, elapsed>>

\* the socket p is reading
Awaited(p, c) == Racing(p) /\ all_connections[p] = Receiving(c)

\* the socket p holds in the chain, its send pending or its read pending
Held(p, c) == Racing(p) /\ all_connections[p] \in {Sending(c), Receiving(c)}

Quiet(c) == msgs[c]["X"] = <<>> /\ "X" \notin shut[c] /\ c \notin faulty

\* the remote sends its first message
RemoteSends(p, m) ==
    /\ Far(p) = "X"
    /\ \E c \in Conns :
        /\ Held(p, c)
        /\ Quiet(c)
        /\ msgs' = [msgs EXCEPT ![c]["X"] = <<m>>]
    /\ UNCHANGED <<pc, args, stream_vars, errors, result, shut, faulty, relay_vars,
                   history, elapsed>>

\* the remote closes the connection without a message
RemoteCloses(p) ==
    /\ Far(p) = "X"
    /\ \E c \in Conns :
        /\ Held(p, c)
        /\ Quiet(c)
        /\ shut' = [shut EXCEPT ![c] = @ \cup {"X"}]
    /\ UNCHANGED <<pc, args, stream_vars, errors, result, msgs, faulty, relay_vars,
                   history, elapsed>>

\* the transport fails while p reads
TransportFails(p) ==
    /\ Far(p) = "X"
    /\ \E c \in Conns :
        /\ Held(p, c)
        /\ Quiet(c)
        /\ faulty' = faulty \cup {c}
    /\ UNCHANGED <<pc, args, stream_vars, errors, result, msgs, shut, relay_vars,
                   history, elapsed>>

RelayResults == {Ok(RelayConn), Err(RendezvousConnect), Canceled}

\* conn_rx is gone: connect returned or resolved, or the relay future ended
\* without awaiting it
ConnRxDropped(p) == pc[p] = "done" \/ p2p_connection[p] = "done"

\* faulty variant: a delivery to a dropped receiver fails the task
RelayDeliversUnhandled(p, res) ==
    /\ Far(p) = "X"
    /\ start_conn[p] = "spawned"
    /\ IF ConnRxDropped(p)
       THEN /\ res # Canceled
            /\ start_conn' = [start_conn EXCEPT ![p] = "failed"]
            /\ UNCHANGED connection_rx
       ELSE /\ Racing(p)
            /\ p2p_connection[p] = "recv"
            /\ connection_rx[p] = Empty
            /\ connection_rx' = [connection_rx EXCEPT ![p] = res]
            /\ start_conn' = [start_conn EXCEPT ![p] =
                                IF res = Canceled THEN "dropped" ELSE "sent"]
    /\ UNCHANGED <<pc, args, stream_vars, errors, result, net_vars, rendezvous,
                   history, elapsed>>

\* the negotiation task spawned by start_rendezvous_connect ends: its result
\* goes into conn_rx, and a send to a dropped receiver is ignored (or_else);
\* or the task is dropped unfinished and conn_rx sees its sender go.  While
\* conn_rx is alive the result is drawn when the relay future awaits it
RelayDelivers(p, res) ==
    /\ Far(p) = "X"
    /\ start_conn[p] = "spawned"
    /\ IF ConnRxDropped(p)
       THEN /\ res # Canceled
            /\ start_conn' = [start_conn EXCEPT ![p] = "discarded"]
            /\ UNCHANGED connection_rx
       ELSE /\ Racing(p)
            /\ p2p_connection[p] = "recv"
            /\ connection_rx[p] = Empty
            /\ connection_rx' = [connection_rx EXCEPT ![p] = res]
            /\ start_conn' = [start_conn EXCEPT ![p] =
                                IF res = Canceled THEN "dropped" ELSE "sent"]
    /\ UNCHANGED <<pc, args, stream_vars, errors, result, net_vars, rendezvous,
                   history, elapsed>>

\* the ceiling TIMEOUT_SEC passes
TimePasses(p) ==
    /\ pc[p] = "running"
    /\ elapsed[p] < TIMEOUT_SEC
    /\ elapsed' = [elapsed EXCEPT ![p] = TIMEOUT_SEC]
    /\ UNCHANGED <<pc, args, stream_vars, errors, result, net_vars, relay_vars, history>>

\* -------------------------------------------------------------------- Next
\* the polls of connect's future while peer_rx is open
Connecting(p) ==
    \/ Call(p)
    \/ \E k \in 1..MaxDirect : DirectConnections(p, k)
    \/ P2pSend(p)
    \/ P2pRecv(p)
    \/ AllConnectionsSent(p)
    \/ AllConnectionsReceived(p)
    \/ DirectIncomingNext(p)
    \/ DirectIncomingSent(p)

Step(p) == Connecting(p) \/ Exhausted(p)

World(p) ==
    \/ \E r \in Requests : InboundArrives(p, r)
    \/ InboundCloses(p)
    \/ \E m \in Messages : RemoteSends(p, m)
    \/ RemoteCloses(p)
    \/ TransportFails(p)
    \/ \E res \in RelayResults : RelayDelivers(p, res)

Next == Step("A") \/ World("A")

Spec == Init /\ [][Next]_vars

\* the event loop polls connect's future whenever it can make progress; the
\* outside world owes nothing
SpecFair == Init /\ [][Next]_vars /\ WF_vars(Step("A"))

\* the specification with the clock: the ceiling may pass at any time
NextTimed == Next \/ TimePasses("A")

SpecTimed == Init /\ [][NextTimed]_vars

\* ------------------------------------------------- two callers, no outsider
\* A (identity 1) and B (identity 2) call connect on each other with the same
\* name hash; B advertises one direct address, A advertises n of them
InitTwo ==
    /\ pc = [p \in Peers |-> "init"]
    /\ our_info = [p \in Peers |-> [id |-> IF p = "A" THEN 1 ELSE 2]]
    /\ \E n \in 0..MaxDirect :
        their_info = [p \in Peers |-> IF p = "A"
                                      THEN [id |-> 2, for_direct |-> 1]
                                      ELSE [id |-> 1, for_direct |-> n]]
    /\ name_hash = [p \in Peers |-> "h"]
    /\ InitCommon

\* the listener of q accepted the k-th direct connection of the other caller,
\* read its first message Connect(r) and handed (socket, r) to q's peer_rx
Accepts(q, k) ==
    /\ Far(q) # "X"
    /\ Called(q)
    /\ LET c == DirectConn(Other(q), k)
       IN /\ msgs[c][Other(q)] # <<>>
          /\ Head(msgs[c][Other(q)])[1] = "Connect"
          /\ peer_rx' = [peer_rx EXCEPT
                           ![q].queue = Append(@, [socket |-> c,
                                                   req |-> Head(msgs[c][Other(q)])[2]]),
                           ![q].count = @ + 1]
          /\ msgs' = [msgs EXCEPT ![c][Other(q)] = Tail(@)]
    /\ UNCHANGED <<pc, args, direct_connections, p2p_connection, all_connections,
                   direct_incoming, errors, result, shut, faulty, relay_vars,
                   history, elapsed>>

\* the relay negotiation between the two callers ends once both handed their
\* payload to it: both get the one connection, or both get the failure
RendezvousConnects(ok) ==
    /\ \A p \in Peers : Far(p) # "X" /\ rendezvous[p] > 0 /\ start_conn[p] = "spawned"
    /\ connection_rx' =
         [p \in Peers |-> IF ConnRxDropped(p) THEN connection_rx[p]
                          ELSE IF ok THEN Ok(RelayConn) ELSE Err(RendezvousConnect)]
    /\ start_conn' =
         [p \in Peers |-> IF ConnRxDropped(p) THEN "discarded" ELSE "sent"]
    /\ UNCHANGED <<pc, args, stream_vars, errors, result, net_vars, rendezvous,
                   history, elapsed>>

NextTwo ==
    \/ \E p \in Peers : Connecting(p)
    \/ \E q \in Peers, k \in 1..MaxDirect : Accepts(q, k)
    \/ \E ok \in BOOLEAN : RendezvousConnects(ok)

\* the event loops poll every future that can make progress and the listeners
\* serve every accepted connection; the relay negotiation may take for ever
SpecTwo ==
    /\ InitTwo
    /\ [][NextTwo]_vars
    /\ WF_vars(Connecting("A"))
    /\ WF_vars(Connecting("B"))
    /\ WF_vars(\E k \in 1..MaxDirect : Accepts("A", k))
    /\ WF_vars(\E k \in 1..MaxDirect : Accepts("B", k))

\* ================================================================== claims
\* the attempts of p: its direct addresses, the relay, the inbound items so far
Attempts(p) ==
    {DirectConn(p, k) : k \in 1..their_info[p].for_direct}
    \cup {RelayConn}
    \cup {IncomingConn(p, k) : k \in 1..peer_rx[p].count}

Ran(p) == pc[p] \in {"running", "done"} /\ our_info[p].id # their_info[p].id

AllFailed(p) == result[p] # Pending /\ result[p][2][1] = "AllConnectionsFailed"

Succeeded(p) == result[p][1] = "Ok"

\* C1: every candidate handed to the upgrade step, and so every reported
\* success, is a socket on which a ConnectRequest was received whose uid is
\* their_info.id and whose name_hash is the local name_hash, and the identity
\* handed over is their_info.id
C1_OnlyValidatedWins ==
    \A p \in Peers :
        /\ \A i \in 1..Len(upgraded[p]) :
            LET c == upgraded[p][i][1]
            IN /\ request_of[p][c] # NoRequest
               /\ request_of[p][c].uid = their_info[p].id
               /\ request_of[p][c].name_hash = name_hash[p]
               /\ upgraded[p][i][2] = their_info[p].id
        /\ Succeeded(p) =>
            /\ Len(upgraded[p]) = 1
            /\ result[p][2] = <<"Peer", upgraded[p][1][1], their_info[p].id>>

C1_Witness ==
    /\ Succeeded("A")
    /\ errors["A"] # <<>>
    /\ result["A"][2][2][1] = "incoming"

\* C2: the race ends in AllConnectionsFailed only when every attempt has ended
\* in failure and no attempt can still come (a failure never ends the race
\* while another attempt is unfinished), and an attempt that validates makes
\* the result that success
C2_RaceCorrect ==
    \A p \in Peers :
        /\ AllFailed(p) =>
            /\ ~peer_rx[p].open
            /\ \A c \in Attempts(p) : outcome[p][c] # Pending /\ IsErr(outcome[p][c])
        /\ \A c \in Conns :
            (outcome[p][c] # Pending /\ IsOk(outcome[p][c])) =>
                \/ result[p] = Ok(<<"Peer", c, their_info[p].id>>)
                \/ result[p] = Err(ConnectIo)

C2_Witness ==
    /\ Succeeded("A")
    /\ Len(errors["A"]) = 2
    /\ \E i \in 1..2 : errors["A"][i][1] = "InvalidUid"
    /\ \E i \in 1..2 : errors["A"][i][1] = "InvalidNameHash"

\* C3: connect with our_info.id = their_info.id returns RequestedConnectToSelf
\* and touches nothing: no connect future, nothing on the rendezvous channel,
\* conn_rx not awaited, no inbound item taken, no message sent
C3_SelfConnect ==
    \A p \in Peers :
        (our_info[p].id = their_info[p].id /\ pc[p] \notin {"off", "init"}) =>
            /\ result[p] = Err(RequestedConnectToSelf)
            /\ pc[p] = "done"
            /\ direct_connections[p] = {}
            /\ p2p_connection[p] = "none"
            /\ rendezvous[p] = 0
            /\ connection_rx[p] = Empty
            /\ Len(peer_rx[p].queue) = peer_rx[p].count
            /\ all_connections[p] = Idle
            /\ direct_incoming[p] = Idle
            /\ \A c \in Conns : msgs[c][p] = <<>>
            /\ completed[p] = <<>>
            /\ upgraded[p] = <<>>

C3_Witness ==
    /\ our_info["A"].id = 2
    /\ their_info["A"].id = 2
    /\ their_info["A"].for_direct = MaxDirect
    /\ pc["A"] = "done"
    /\ peer_rx["A"].count = MaxInbound

NoDuplicates(seq) == \A i, j \in 1..Len(seq) : seq[i] = seq[j] => i = j

\* C4: AllConnectionsFailed carries exactly one entry per attempt: as many
\* entries as direct addresses plus the relay plus the inbound items, each
\* attempt's own error once
C4_Exhaustion ==
    \A p \in Peers :
        AllFailed(p) =>
            LET v == result[p][2][2]
            IN /\ Len(v) = their_info[p].for_direct + 1 + peer_rx[p].count
               /\ Len(completed[p]) = Len(v)
               /\ NoDuplicates(completed[p])
               /\ {completed[p][i] : i \in 1..Len(v)} = Attempts(p)
               /\ \A i \in 1..Len(v) : outcome[p][completed[p][i]] = Err(v[i])

C4_Witness ==
    /\ AllFailed("A")
    /\ their_info["A"].for_direct = MaxDirect
    /\ peer_rx["A"].count = MaxInbound
    /\ Len(result["A"][2][2]) = MaxDirect + 1 + MaxInbound

\* no direct address, the relay dead (channel send failed or conn_rx
\* cancelled), the inbound stream closed without an item
EmptyAttemptSet(p) ==
    /\ Ran(p)
    /\ result[p] # Pending
    /\ their_info[p].for_direct = 0
    /\ peer_rx[p].count = 0
    /\ outcome[p][RelayConn] = Err(DeadChannel)

\* C5 as stated: with an empty attempt set the result is AllConnectionsFailed
\* with an empty list
C5_EmptyList ==
    \A p \in Peers : EmptyAttemptSet(p) => result[p] = Err(AllConnectionsFailed(<<>>))

\* C5 amended: with an empty attempt set the result is AllConnectionsFailed
\* whose list holds exactly the relay attempt's DeadChannel
C5_RelayFailureOnly ==
    \A p \in Peers :
        EmptyAttemptSet(p) => result[p] = Err(AllConnectionsFailed(<<DeadChannel>>))

C5_Witness == EmptyAttemptSet("A") /\ rendezvous["A"] = 1

\* C6: once the ceiling TIMEOUT_SEC has passed, connect has produced an outcome
C6_TimeBounded ==
    \A p \in Peers : elapsed[p] >= TIMEOUT_SEC => result[p] # Pending

\* C7: every validation returns InvalidUid(received, expected) exactly when the
\* uid differs (whatever the name hash), InvalidNameHash(received) exactly
\* when the uid matches and the name hash differs, Ok exactly when both match
Validated(req, expected, our_hash, res) ==
    /\ (req.uid # expected) <=> (res = Err(<<"InvalidUid", ToString(req.uid), ToString(expected)>>))
    /\ (req.uid = expected /\ req.name_hash # our_hash)
          <=> (res = Err(<<"InvalidNameHash", req.name_hash>>))
    /\ (req.uid = expected /\ req.name_hash = our_hash) <=> (res[1] = "Ok")

C7_Validate ==
    [][\A p \in Peers :
        /\ (peer_rx[p].queue # <<>> /\ peer_rx'[p].queue = Tail(peer_rx[p].queue)) =>
            LET item == Head(peer_rx[p].queue)
            IN Validated(item.req, their_info[p].id, name_hash[p],
                         IF direct_incoming'[p] = Sending(item.socket)
                         THEN Ok(<<>>)
                         ELSE outcome'[p][item.socket])
        /\ \A c \in Conns :
            (/\ all_connections[p] = Receiving(c)
             /\ all_connections'[p] = Idle
             /\ FirstEvent(p, c)[1] = "some"
             /\ FirstEvent(p, c)[2][1] = "Connect") =>
                Validated(FirstEvent(p, c)[2][2], their_info[p].id, name_hash[p],
                          outcome'[p][c])
      ]_vars

\* a request that differs in uid and in name hash was rejected with InvalidUid
C7_Witness ==
    \E c \in Conns :
        /\ outcome["A"][c] = Err(<<"InvalidUid", "1", "2">>)
        /\ c[1] = "incoming"
        /\ \E d \in Conns : outcome["A"][d] = Err(<<"InvalidNameHash", "g">>)

\* C8: an outgoing or relay attempt that has sent our request ends with the
\* first thing its socket yields: ConnectionDropped when the connection closed
\* without a message, UnexpectedMessage for a message that is not Connect, the
\* validation result for Connect (the candidate when it is Ok); it ends as
\* exactly one outcome, and it can always take that step once the event is there
C8_Step(p, c) ==
    (all_connections[p] = Receiving(c) /\ all_connections'[p] # Receiving(c)) =>
        LET ev == FirstEvent(p, c)
        IN /\ msgs[c][p] = <<HandshakeConnect(OurConnectRequest(p))>>
           /\ ev[1] # "notready"
           /\ completed'[p] = Append(completed[p], c)
           /\ outcome[p][c] = Pending
           /\ ev[1] = "none" => outcome'[p][c] = Err(ConnectionDropped)
           /\ (ev[1] = "some" /\ ev[2][1] # "Connect") =>
                 outcome'[p][c] = Err(UnexpectedMessage)
           /\ (ev[1] = "some" /\ ev[2][1] = "Connect") =>
                 LET v == validate_connect_request(their_info[p].id, name_hash[p], ev[2][2])
                 IN outcome'[p][c] = IF IsOk(v) THEN Ok(<<c, their_info[p].id>>) ELSE v

C8_WireContract ==
    /\ [][\A p \in Peers : \A c \in Conns : C8_Step(p, c)]_vars
    /\ [](\A p \in Peers : \A c \in Conns :
            (Awaited(p, c) /\ FirstEvent(p, c)[1] # "notready") =>
                ENABLED AllConnectionsReceived(p))

C8_Witness ==
    /\ outcome["A"][DirectConn("A", 1)] = Err(ConnectionDropped)
    /\ outcome["A"][RelayConn] = Err(UnexpectedMessage)

\* C10: at most one candidate is ever handed to the upgrade step, and once
\* connect has its outcome nothing of the call changes any more: not the
\* outcome, not the errors, not a stream, and no further message is sent
C10_Step(p) ==
    /\ Len(upgraded'[p]) <= 1
    /\ result[p] # Pending =>
        /\ result'[p] = result[p]
        /\ pc'[p] = "done"
        /\ errors'[p] = errors[p]
        /\ upgraded'[p] = upgraded[p]
        /\ completed'[p] = completed[p]
        /\ direct_connections'[p] = direct_connections[p]
        /\ p2p_connection'[p] = p2p_connection[p]
        /\ all_connections'[p] = all_connections[p]
        /\ direct_incoming'[p] = direct_incoming[p]
        /\ peer_rx'[p].queue = peer_rx[p].queue
        /\ connection_rx'[p] = connection_rx[p]
        /\ \A c \in Conns : msgs'[c][p] = msgs[c][p]

C10_SingleOutcome == [][\A p \in Peers : C10_Step(p)]_vars

\* a winner was chosen while the other stream still held work
C10_Witness ==
    /\ Succeeded("A")
    /\ upgraded["A"][1][1] = RelayConn
    /\ direct_incoming["A"] # Idle
    /\ direct_connections["A"] # {}

\* C9: two callers A (identity 1) and B (identity 2) with the same name hash,
\* B reachable by A at one direct address: A's connect eventually succeeds with
\* a peer whose identity is 2, on a socket on which A received and validated
\* Connect{uid: 2, name_hash: h}
C9_EndToEnd ==
    <>(\E c \in Conns :
          /\ result["A"] = Ok(<<"Peer", c, 2>>)
          /\ request_of["A"][c] = ConnectRequest(2, "h"))

\* the exchange on B's direct address: B's side validated Connect{1, h} that
\* A sent there and replied, A validated the reply
C9_Witness ==
    LET c == DirectConn("A", 1)
    IN /\ result["A"] = Ok(<<"Peer", c, 2>>)
       /\ request_of["A"][c] = ConnectRequest(2, "h")
       /\ request_of["B"][c] = ConnectRequest(1, "h")
       /\ result["B"] = Ok(<<"Peer", c, 1>>)

\* C11: the negotiation task is spawned at once and sends conn_rx exactly one
\* result when it finishes, Ok(connection) or Err(RendezvousConnect); when
\* conn_rx is already dropped the result is discarded, the task completes
\* without error and nothing of the call changes
C11_Step(p) ==
    /\ start_conn[p] # "spawned" =>
        /\ start_conn'[p] = start_conn[p]
        /\ connection_rx'[p] \in {connection_rx[p], Taken}
    /\ (connection_rx[p] = Empty /\ connection_rx'[p] # Empty) =>
        /\ start_conn[p] = "spawned"
        /\ \/ /\ start_conn'[p] = "sent"
              /\ connection_rx'[p] \in {Ok(RelayConn), Err(RendezvousConnect)}
           \/ /\ start_conn'[p] = "dropped"
              /\ connection_rx'[p] = Canceled
    /\ (start_conn[p] = "spawned" /\ start_conn'[p] # "spawned" /\ ConnRxDropped(p)) =>
        /\ start_conn'[p] = "discarded"
        /\ connection_rx'[p] = connection_rx[p]
        /\ result'[p] = result[p]
        /\ errors'[p] = errors[p]
        /\ pc'[p] = pc[p]

C11_OneResult ==
    /\ \A p \in Peers : start_conn[p] = "spawned"
    /\ [][\A p \in Peers : C11_Step(p)]_vars

\* the relay attempt lost the race and the task finished afterwards
C11_Witness ==
    /\ start_conn["A"] = "discarded"
    /\ Succeeded("A")
    /\ rendezvous["A"] = 1
    /\ connection_rx["A"] = Empty

\* C12: a candidate handed to the upgrade step ends the call at once, with the
\* peer or, when the upgrade fails, with ConnectError::Io; after Io no step of
\* the call can be taken (no other attempt is tried) and the result carries
\* none of the errors collected before
C12_Step(p) ==
    Len(upgraded'[p]) > Len(upgraded[p]) =>
        /\ result[p] = Pending
        /\ pc'[p] = "done"
        /\ errors'[p] = errors[p]
        /\ LET item == upgraded'[p][Len(upgraded'[p])]
           IN result'[p] \in {Ok(<<"Peer", item[1], item[2]>>), Err(ConnectIo)}

C12_UpgradeFailure ==
    /\ [][\A p \in Peers : C12_Step(p)]_vars
    /\ [](\A p \in Peers :
            result[p] = Err(ConnectIo) =>
                /\ Len(upgraded[p]) = 1
                /\ ~ENABLED Step(p))

\* the upgrade failed while an address was untried and an error had been
\* collected
C12_Witness ==
    /\ result["A"] = Err(ConnectIo)
    /\ errors["A"] # <<>>
    /\ direct_connections["A"] # {}

C14_Independent ==
    /\ (Racing("A") /\ p2p_connection["A"] = "recv" /\ connection_rx["A"] = Ok(RelayConn))
          ~> (connection_rx["A"] = Taken \/ result["A"] # Pending)
    /\ \A k \in 1..MaxDirect :
          (Racing("A") /\ k \in direct_connections["A"])
             ~> (k \notin direct_connections["A"] \/ result["A"] # Pending)

\* C15: the one relay attempt of a call: a failed send on the rendezvous
\* channel is DeadChannel and conn_rx is never awaited; after the send, a
\* dropped sender of conn_rx is DeadChannel, a delivered Err(e) is e, and a
\* delivered connection enters the chain with the send of our request; the
\* attempt ends once
C15_Step(p) ==
    /\ (p2p_connection[p] = "send" /\ p2p_connection'[p] = "done") =>
        /\ outcome'[p][RelayConn] = Err(DeadChannel)
        /\ rendezvous'[p] = 0
        /\ connection_rx'[p] = connection_rx[p]
    /\ (p2p_connection[p] = "send" /\ p2p_connection'[p] = "recv") =>
        /\ rendezvous'[p] = 1
        /\ outcome'[p][RelayConn] = Pending
    /\ (p2p_connection[p] = "recv" /\ p2p_connection'[p] # "recv") =>
        /\ p2p_connection'[p] = "done"
        /\ connection_rx'[p] = Taken
        /\ connection_rx[p] = Canceled => outcome'[p][RelayConn] = Err(DeadChannel)
        /\ (connection_rx[p] # Canceled /\ IsErr(connection_rx[p])) =>
              outcome'[p][RelayConn] = connection_rx[p]
        /\ (connection_rx[p] # Canceled /\ IsOk(connection_rx[p])) =>
              /\ all_connections'[p] = Sending(connection_rx[p][2])
              /\ outcome'[p][RelayConn] = Pending
              /\ msgs' = msgs
    /\ outcome[p][RelayConn] # Pending => outcome'[p][RelayConn] = outcome[p][RelayConn]
    /\ all_connections'[p] = Receiving(RelayConn) =>
          msgs'[RelayConn][p] = <<HandshakeConnect(OurConnectRequest(p))>>

C15_RelayAttempt ==
    /\ [][\A p \in Peers : C15_Step(p)]_vars
    /\ [](\A p \in Peers :
            /\ rendezvous[p] = 0 => connection_rx[p] # Taken
            /\ Cardinality({i \in 1..Len(completed[p]) : completed[p][i] = RelayConn}) <= 1
            /\ p2p_connection[p] = "done" =>
                  \/ outcome[p][RelayConn] # Pending
                  \/ all_connections[p] \in {Sending(RelayConn), Receiving(RelayConn)}
                  \/ result[p] # Pending)

\* the negotiation's own failure was taken from conn_rx and is the attempt's
\* error
C15_Witness ==
    /\ outcome["A"][RelayConn] = Err(RendezvousConnect)
    /\ connection_rx["A"] = Taken
    /\ rendezvous["A"] = 1

\* C16: an inbound item is validated first; only a valid item has our request
\* sent on its connection, and it is a candidate (connection, their_info.id)
\* only once that send completed; an invalid item gets nothing sent and its
\* error is recorded; a failed send is Socket and no candidate
C16_Step(p) ==
    /\ (peer_rx[p].queue # <<>> /\ peer_rx'[p].queue = Tail(peer_rx[p].queue)) =>
        LET item == Head(peer_rx[p].queue)
            c == item.socket
            valid == item.req.uid = their_info[p].id /\ item.req.name_hash = name_hash[p]
        IN /\ msgs'[c][p] = <<>>
           /\ upgraded'[p] = upgraded[p]
           /\ valid => /\ direct_incoming'[p] = Sending(c)
                       /\ outcome'[p][c] = Pending
                       /\ errors'[p] = errors[p]
           /\ ~valid => /\ direct_incoming'[p] = Idle
                        /\ IsErr(outcome'[p][c])
                        /\ outcome'[p][c][2][1] \in {"InvalidUid", "InvalidNameHash"}
                        /\ errors'[p] = Append(errors[p], outcome'[p][c][2])
    /\ \A c \in Conns :
        (direct_incoming[p] = Sending(c) /\ direct_incoming'[p] # Sending(c)) =>
            \/ /\ msgs'[c][p] = <<HandshakeConnect(ConnectRequest(our_info[p].id, name_hash[p]))>>
               /\ outcome'[p][c] = Ok(<<c, their_info[p].id>>)
               /\ upgraded'[p] = Append(upgraded[p], <<c, their_info[p].id>>)
            \/ /\ msgs'[c][p] = <<>>
               /\ outcome'[p][c] = Err(SocketErr)
               /\ errors'[p] = Append(errors[p], SocketErr)
               /\ upgraded'[p] = upgraded[p]

C16_DirectIncoming ==
    /\ [][\A p \in Peers : C16_Step(p)]_vars
    /\ [](\A p \in Peers : \A c \in Conns :
            /\ (c[1] = "incoming" /\ msgs[c][p] # <<>>) =>
                  /\ request_of[p][c].uid = their_info[p].id
                  /\ request_of[p][c].name_hash = name_hash[p]
            /\ (c[1] = "incoming" /\ outcome[p][c] # Pending /\ IsOk(outcome[p][c])) =>
                  msgs[c][p] # <<>>)

\* a valid inbound item became the candidate after our request went out on it,
\* and an earlier error stayed recorded
C16_Witness ==
    LET c == IncomingConn("A", 1)
    IN /\ outcome["A"][c] = Ok(<<c, 2>>)
       /\ msgs[c]["A"] # <<>>
       /\ errors["A"] = <<DeadChannel>>

\* C17: on an outgoing or relay connection the read starts only when the send
\* of our request has completed, whatever the remote has sent by then; nothing
\* is read or validated on it before; a failed send ends the attempt with
\* Socket, nothing read, nothing validated
C17_Step(p, c) ==
    /\ (all_connections'[p] = Receiving(c) /\ all_connections[p] # Receiving(c)) =>
        /\ all_connections[p] = Sending(c)
        /\ msgs[c][p] = <<>>
        /\ msgs'[c][p] = <<HandshakeConnect(ConnectRequest(our_info[p].id, name_hash[p]))>>
        /\ msgs'[c][Far(p)] = msgs[c][Far(p)]
        /\ outcome'[p][c] = Pending
        /\ request_of'[p][c] = NoRequest
    /\ (all_connections[p] = Sending(c) /\ all_connections'[p] # Sending(c)
          /\ all_connections'[p] # Receiving(c)) =>
        /\ all_connections'[p] = Idle
        /\ outcome'[p][c] = Err(SocketErr)
        /\ msgs'[c][p] = <<>>
        /\ request_of'[p][c] = NoRequest
        /\ upgraded'[p] = upgraded[p]
    /\ (c[1] # "incoming" /\ outcome[p][c] = Pending /\ outcome'[p][c] # Pending
          /\ all_connections[p] # Receiving(c)) =>
        outcome'[p][c][2] \in {Io, SocketErr, DeadChannel, RendezvousConnect}
    /\ (c[1] # "incoming" /\ request_of'[p][c] # request_of[p][c]) =>
        /\ all_connections[p] = Receiving(c)
        /\ msgs[c][p] # <<>>

C17_SendThenReceive == [][\A p \in Peers : \A c \in Conns : C17_Step(p, c)]_vars

\* the remote's answer was there before our send completed, and it was read
\* only afterwards; on the direct connection the send failed
C17_Witness ==
    /\ all_connections["A"] = Sending(RelayConn)
    /\ msgs[RelayConn]["X"] # <<>>
    /\ outcome["A"][DirectConn("A", 1)] = Err(SocketErr)
    /\ msgs[DirectConn("A", 1)]["A"] = <<>>

\* C18: when both callers succeed they hold the same connection
C18_Agreement ==
    (Succeeded("A") /\ Succeeded("B")) => result["A"][2][2] = result["B"][2][2]

\* C19: AllConnectionsFailed is reported only when every direct address and
\* the relay attempt have ended and peer_rx is closed and drained; while
\* peer_rx is open and no attempt has succeeded the call has no outcome and
\* cannot report exhaustion, even with every outgoing and relay attempt failed
C19_NeedsClosedInbound ==
    \A p \in Peers :
        /\ AllFailed(p) =>
            /\ direct_connections[p] = {}
            /\ p2p_connection[p] = "done"
            /\ all_connections[p] = Idle
            /\ ~peer_rx[p].open
            /\ peer_rx[p].queue = <<>>
            /\ direct_incoming[p] = Idle
        /\ (/\ Ran(p)
            /\ peer_rx[p].open
            /\ \A c \in Conns : outcome[p][c] = Pending \/ IsErr(outcome[p][c])) =>
            /\ result[p] = Pending
            /\ ~ENABLED Exhausted(p)

\* every outgoing and relay attempt has failed and the call still waits for
\* the open inbound stream
C19_Witness ==
    /\ Racing("A")
    /\ AllConnectionsEnded("A")
    /\ their_info["A"].for_direct = MaxDirect
    /\ Len(errors["A"]) = MaxDirect + 1
    /\ peer_rx["A"].open
    /\ peer_rx["A"].queue = <<>>
    /\ direct_incoming["A"] = Idle

\* C20: on every connection connect sends at most one message, and it is
\* Connect carrying our_info.id and the name_hash of the call, the same on
\* every connection
C20_OneConnectMessage ==
    \A p \in Peers : \A c \in Conns :
        \/ msgs[c][p] = <<>>
        \/ msgs[c][p] = <<<<"Connect", [uid |-> our_info[p].id, name_hash |-> name_hash[p]]>>>>

\* one call sent its request on a direct, the relay and an inbound connection
C20_Witness ==
    /\ msgs[DirectConn("A", 1)]["A"] # <<>>
    /\ msgs[RelayConn]["A"] # <<>>
    /\ msgs[IncomingConn("A", 1)]["A"] # <<>>

====
